---------------------------- MODULE Spec2Model ----------------------------
(***************************************************************************)
(* A model of the discord xp bot's data layer (src/xp_system_extension.py): *)
(*   - the connection pool manager of xp_system_db_connection: the         *)
(*     readiness event stable_pool, the waiter counter, the retry loop of   *)
(*     the _database_interaction decorator and _rebuild_pool;               *)
(*   - fetch / commit on pooled connections;                                *)
(*   - the character / pool registry built on them.                         *)
(* Every asyncio task runs until its next await: an action is the code      *)
(* between two awaits of one task.                                          *)
(***************************************************************************)
EXTENDS Integers, Sequences, FiniteSets, TLC

(***************************************************************************)
(* Part 1.  The connection pool manager.                                    *)
(***************************************************************************)

\* The tasks that call fetch or commit.
Callers == {"c1", "c2", "c3"}

\* How many times the database may stop accepting connections.
MaxOutages == 1

\* self.max_retries
max_retries == 3

\* self.stagger_time, in quarters of a second (0.25 s).
stagger_time == 1

\* asyncio.sleep(2) between two attempts, in quarters of a second.
retry_delay == 8

\* Parameters _build_pool declares besides self, and arguments _rebuild_pool
\* passes to it.
BuildPoolParams == 0
RebuildPassedArgs == 1

VARIABLES
    stable_pool,        \* asyncio.Event: is the readiness signal set
    crash_time,         \* 0 for None, else the number of the recorded crash
    waiting_executions, \* the waiter counter
    connection_pool,    \* "none" (attribute not yet set), "open", "closed"
    buildPc,            \* the _build_pool task setup() starts: "pending", "done", "failed"
    dbUp,               \* does the database accept connections
    outages,            \* how many times it went down
    rebuilds,           \* how many times _rebuild_pool was called
    pc,                 \* per caller: where it is inside interaction()
    retries,            \* per caller: the local variable retries
    wait_time,          \* per caller: wait_time_to_prevent_overload
    attempts,           \* per caller: how many times func was started
    backoffs,           \* per caller: total time slept between attempts
    registered,         \* per caller: incremented the counter and not yet decremented it
    gated,              \* per caller: did it find the signal clear on arrival
    regPos,             \* per caller: the waiter counter it read on arrival
    slept,              \* per caller: how long it slept after the signal came
    err,                \* per caller: the error raised to its caller, <<kind, attempt>>
    lastRebuild         \* "none", or whether the database was "up" or "down" when
                        \* _rebuild_pool last ran

mgrVars == <<stable_pool, crash_time, waiting_executions, connection_pool, buildPc,
             dbUp, outages, rebuilds, lastRebuild>>
callerVars == <<pc, retries, wait_time, attempts, backoffs, registered, gated, regPos,
                slept, err>>

\* The state of part 2: the database and the registry tasks.
VARIABLES
    db,         \* [accounts, characters, next_id]: the committed tables
    whole,      \* the tables as whole statement groups alone would have left them
    pending,    \* per connection: the statements executed and not committed
    task,       \* per task: the operation it runs, its locals and its position
    opsStarted, \* how many operations were started
    faults,     \* how many statements failed
    accountKey  \* is account_id a unique key of the accounts table

regVars == <<db, whole, pending, task, opsStarted, faults, accountKey>>

\* The state of part 3: the permissions of xp_system.
VARIABLES
    config,           \* configuration["permissions"]: default, roles, nested_permissions
    role_permissions, \* self.role_permissions: the roles resolved so far
    default_perms,    \* the contents of the list self.default_perms
    extras,           \* per command: the contents of extras["required_permissions"]
    resolver,         \* the locals of the loops of xp_system.__init__
    gate              \* the last invocation and the decision it got

permVars == <<config, role_permissions, default_perms, extras, resolver, gate>>

vars == <<mgrVars, callerVars, regVars, permVars>>

NoError == <<"none", 0>>

\* A gate that never closes (mutant of MustWait).
MustWaitNever(stable) == FALSE

\* interaction(): "if not self.stable_pool.is_set()"
MustWait(stable) == ~stable

\* "wait_time_to_prevent_overload = self.waiting_executions * self.stagger_time"
StaggerWait(waiting) == waiting * stagger_time

\* "while retries < self.max_retries"
LoopContinues(r) == r < max_retries

\* An off-by-one test of the retry count (mutant of RetriesExhausted).
RetriesExhaustedLate(r) == r > max_retries

\* "if retries >= self.max_retries: # retries fail"
RetriesExhausted(r) == r >= max_retries

\* "if not self.stable_pool.is_set(): # rebuild sequence not yet initiated"
ShouldRebuild(stable) == ~stable

\* _close_pool: self._connection_pool.close(); an AttributeError when
\* _build_pool never set the attribute.
ClosePool(p) == IF p = "none" THEN [raised |-> TRUE, pool |-> p]
                ELSE [raised |-> FALSE, pool |-> "closed"]

\* Calling _build_pool with nargs arguments besides self: a TypeError unless
\* nargs is the number of parameters it declares; else it opens the pool and
\* sets the signal when the database accepts connections.
BuildPoolCall(nargs, p, stable, up) ==
    IF nargs # BuildPoolParams THEN [raised |-> TRUE, pool |-> p, stable |-> stable]
    ELSE IF up THEN [raised |-> FALSE, pool |-> "open", stable |-> TRUE]
    ELSE [raised |-> FALSE, pool |-> p, stable |-> stable]

\* _rebuild_pool: close, build, set the signal; any exception is printed and
\* swallowed.
RebuildPool(p, stable, up) ==
    LET closed == ClosePool(p) IN
    IF closed.raised THEN [pool |-> p, stable |-> stable]
    ELSE LET built == BuildPoolCall(RebuildPassedArgs, closed.pool, stable, up) IN
         IF built.raised THEN [pool |-> built.pool, stable |-> built.stable]
         ELSE [pool |-> built.pool, stable |-> TRUE]

MgrInit ==
    /\ stable_pool = FALSE
    /\ crash_time = 0
    /\ waiting_executions = 0
    /\ connection_pool = "none"
    /\ buildPc = "pending"
    /\ dbUp = TRUE
    /\ outages = 0
    /\ rebuilds = 0
    /\ pc = [c \in Callers |-> "idle"]
    /\ retries = [c \in Callers |-> 0]
    /\ wait_time = [c \in Callers |-> 0]
    /\ attempts = [c \in Callers |-> 0]
    /\ backoffs = [c \in Callers |-> 0]
    /\ registered = [c \in Callers |-> FALSE]
    /\ gated = [c \in Callers |-> FALSE]
    /\ regPos = [c \in Callers |-> 0]
    /\ slept = [c \in Callers |-> 0]
    /\ err = [c \in Callers |-> NoError]
    /\ lastRebuild = "none"

\* The environment: the database stops or starts accepting connections.
DbGoesDown ==
    /\ dbUp /\ outages < MaxOutages
    /\ dbUp' = FALSE /\ outages' = outages + 1
    /\ UNCHANGED <<stable_pool, crash_time, waiting_executions, connection_pool,
                   buildPc, rebuilds, lastRebuild, callerVars>>
    /\ UNCHANGED <<regVars, permVars>>

DbComesUp ==
    /\ ~dbUp
    /\ dbUp' = TRUE
    /\ UNCHANGED <<stable_pool, crash_time, waiting_executions, connection_pool,
                   buildPc, outages, rebuilds, lastRebuild, callerVars>>
    /\ UNCHANGED <<regVars, permVars>>

\* _build_pool, started by setup(): create_pool succeeds and the signal is set.
BuildPoolOk ==
    /\ buildPc = "pending" /\ dbUp
    /\ LET built == BuildPoolCall(0, connection_pool, stable_pool, dbUp) IN
         /\ connection_pool' = built.pool
         /\ stable_pool' = built.stable
    /\ buildPc' = "done"
    /\ UNCHANGED <<crash_time, waiting_executions, dbUp, outages, rebuilds, lastRebuild,
                   callerVars>>
    /\ UNCHANGED <<regVars, permVars>>

\* _build_pool: create_pool raises; nothing is set and nothing retries.
BuildPoolFails ==
    /\ buildPc = "pending" /\ ~dbUp
    /\ buildPc' = "failed"
    /\ UNCHANGED <<stable_pool, crash_time, waiting_executions, connection_pool,
                   dbUp, outages, rebuilds, lastRebuild, callerVars>>
    /\ UNCHANGED <<regVars, permVars>>

\* interaction() up to its first await: the gate.
Call(c) ==
    /\ pc[c] = "idle"
    /\ gated' = [gated EXCEPT ![c] = MustWait(stable_pool)]
    /\ IF MustWait(stable_pool)
       THEN /\ wait_time' = [wait_time EXCEPT ![c] = StaggerWait(waiting_executions)]
            /\ regPos' = [regPos EXCEPT ![c] = waiting_executions]
            /\ waiting_executions' = waiting_executions + 1
            /\ registered' = [registered EXCEPT ![c] = TRUE]
            /\ pc' = [pc EXCEPT ![c] = "waiting"]
            /\ UNCHANGED attempts
       ELSE /\ pc' = [pc EXCEPT ![c] = "attempt"]
            /\ attempts' = [attempts EXCEPT ![c] = 1]
            /\ UNCHANGED <<wait_time, regPos, waiting_executions, registered>>
    /\ UNCHANGED <<stable_pool, crash_time, connection_pool, buildPc, dbUp, outages,
                   rebuilds, lastRebuild, retries, backoffs, slept, err>>
    /\ UNCHANGED <<regVars, permVars>>

\* "await self.stable_pool.wait()" returns; the stagger sleep starts.
WakeUp(c) ==
    /\ pc[c] = "waiting" /\ stable_pool
    /\ pc' = [pc EXCEPT ![c] = "stagger"]
    /\ UNCHANGED <<mgrVars, retries, wait_time, attempts, backoffs, registered, gated,
                   regPos, slept, err>>
    /\ UNCHANGED <<regVars, permVars>>

\* A caller that leaves the stagger sleep without "self.waiting_executions -= 1"
\* (mutant of StaggerDone).
StaggerDoneKeepsCount(c) ==
    /\ pc[c] = "stagger"
    /\ registered' = [registered EXCEPT ![c] = FALSE]
    /\ pc' = [pc EXCEPT ![c] = "attempt"]
    /\ attempts' = [attempts EXCEPT ![c] = 1]
    /\ slept' = [slept EXCEPT ![c] = wait_time[c]]
    /\ UNCHANGED <<stable_pool, crash_time, waiting_executions, connection_pool, buildPc,
                   dbUp, outages, rebuilds, lastRebuild, retries, wait_time, backoffs,
                   gated, regPos, err>>
    /\ UNCHANGED <<regVars, permVars>>

\* "await asyncio.sleep(wait_time_to_prevent_overload)" returns; deregister and
\* enter the loop.
StaggerDone(c) ==
    /\ pc[c] = "stagger"
    /\ waiting_executions' = waiting_executions - 1
    /\ registered' = [registered EXCEPT ![c] = FALSE]
    /\ pc' = [pc EXCEPT ![c] = "attempt"]
    /\ attempts' = [attempts EXCEPT ![c] = 1]
    /\ slept' = [slept EXCEPT ![c] = wait_time[c]]
    /\ UNCHANGED <<stable_pool, crash_time, connection_pool, buildPc, dbUp, outages,
                   rebuilds, lastRebuild, retries, wait_time, backoffs, gated, regPos, err>>
    /\ UNCHANGED <<regVars, permVars>>

\* "return await func(...)" inside the loop succeeds.
AttemptOk(c) ==
    /\ pc[c] = "attempt" /\ dbUp /\ connection_pool = "open"
    /\ pc' = [pc EXCEPT ![c] = "returned"]
    /\ UNCHANGED <<mgrVars, retries, wait_time, attempts, backoffs, registered, gated,
                   regPos, slept, err>>
    /\ UNCHANGED <<regVars, permVars>>

\* func raises mysql.OperationalError inside the loop.
AttemptOperationalError(c) ==
    /\ pc[c] = "attempt"
    /\ retries' = [retries EXCEPT ![c] = retries[c] + 1]
    /\ IF RetriesExhausted(retries[c] + 1)
       THEN /\ IF ShouldRebuild(stable_pool)
               THEN LET rebuilt == RebuildPool(connection_pool, FALSE, dbUp) IN
                    /\ crash_time' = rebuilds + 1
                    /\ rebuilds' = rebuilds + 1
                    /\ stable_pool' = rebuilt.stable
                    /\ connection_pool' = rebuilt.pool
                    /\ lastRebuild' = IF dbUp THEN "up" ELSE "down"
               ELSE \* "self.stable_pool.wait()": the coroutine is never awaited
                    UNCHANGED <<crash_time, rebuilds, stable_pool, connection_pool,
                                lastRebuild>>
            /\ pc' = [pc EXCEPT ![c] = "final"]
            /\ attempts' = [attempts EXCEPT ![c] = attempts[c] + 1]
       ELSE /\ pc' = [pc EXCEPT ![c] = "backoff"]
            /\ UNCHANGED <<crash_time, rebuilds, stable_pool, connection_pool,
                           lastRebuild, attempts>>
    /\ UNCHANGED <<waiting_executions, buildPc, dbUp, outages, wait_time, backoffs,
                   registered, gated, regPos, slept, err>>
    /\ UNCHANGED <<regVars, permVars>>

\* A wrapper that takes any error for a crash of the pool: it clears the signal
\* before it raises (mutant of AttemptOtherError).
AttemptOtherErrorClearsSignal(c) ==
    /\ pc[c] = "attempt"
    /\ pc' = [pc EXCEPT ![c] = "raised"]
    /\ err' = [err EXCEPT ![c] = <<"other", attempts[c]>>]
    /\ stable_pool' = FALSE
    /\ UNCHANGED <<crash_time, waiting_executions, connection_pool, buildPc, dbUp,
                   outages, rebuilds, lastRebuild>>
    /\ UNCHANGED <<retries, wait_time, attempts, backoffs, registered, gated,
                   regPos, slept>>
    /\ UNCHANGED <<regVars, permVars>>

\* func raises any other exception inside the loop: "except Exception as e: raise e".
AttemptOtherError(c) ==
    /\ pc[c] = "attempt"
    /\ pc' = [pc EXCEPT ![c] = "raised"]
    /\ err' = [err EXCEPT ![c] = <<"other", attempts[c]>>]
    /\ UNCHANGED <<mgrVars, retries, wait_time, attempts, backoffs, registered, gated,
                   regPos, slept>>
    /\ UNCHANGED <<regVars, permVars>>

\* "await asyncio.sleep(2)" returns; the loop condition is tested again.
BackoffDone(c) ==
    /\ pc[c] = "backoff"
    /\ backoffs' = [backoffs EXCEPT ![c] = backoffs[c] + retry_delay]
    /\ IF LoopContinues(retries[c])
       THEN /\ pc' = [pc EXCEPT ![c] = "attempt"]
            /\ attempts' = [attempts EXCEPT ![c] = attempts[c] + 1]
       ELSE \* the loop ends and interaction() returns None
            /\ pc' = [pc EXCEPT ![c] = "fell_through"]
            /\ UNCHANGED attempts
    /\ UNCHANGED <<mgrVars, retries, wait_time, registered, gated, regPos, slept, err>>
    /\ UNCHANGED <<regVars, permVars>>

\* The attempt after the retries ran out succeeds.
FinalOk(c) ==
    /\ pc[c] = "final" /\ dbUp /\ connection_pool = "open"
    /\ pc' = [pc EXCEPT ![c] = "returned"]
    /\ UNCHANGED <<mgrVars, retries, wait_time, attempts, backoffs, registered, gated,
                   regPos, slept, err>>
    /\ UNCHANGED <<regVars, permVars>>

\* The attempt after the retries ran out raises: "raise er".
FinalError(c, kind) ==
    /\ pc[c] = "final"
    /\ pc' = [pc EXCEPT ![c] = "raised"]
    /\ err' = [err EXCEPT ![c] = <<kind, attempts[c]>>]
    /\ UNCHANGED <<mgrVars, retries, wait_time, attempts, backoffs, registered, gated,
                   regPos, slept>>
    /\ UNCHANGED <<regVars, permVars>>

MgrNext ==
    \/ DbGoesDown
    \/ DbComesUp
    \/ BuildPoolOk
    \/ BuildPoolFails
    \/ \E c \in Callers : Call(c)
    \/ \E c \in Callers : WakeUp(c)
    \/ \E c \in Callers : StaggerDone(c)
    \/ \E c \in Callers : AttemptOk(c)
    \/ \E c \in Callers : AttemptOperationalError(c)
    \/ \E c \in Callers : AttemptOtherError(c)
    \/ \E c \in Callers : BackoffDone(c)
    \/ \E c \in Callers : FinalOk(c)
    \/ \E c \in Callers : \E kind \in {"op", "other"} : FinalError(c, kind)

\* _rebuild_pool called on its own, as setup() calls _build_pool and cog_unload
\* calls _close_pool: the only call in the class sits in a branch of
\* interaction() that RebuildBranchDead shows is never taken.
MaxDirectRebuilds == 1

DirectRebuild ==
    /\ rebuilds < MaxDirectRebuilds
    /\ LET rebuilt == RebuildPool(connection_pool, stable_pool, dbUp) IN
         /\ connection_pool' = rebuilt.pool
         /\ stable_pool' = rebuilt.stable
    /\ rebuilds' = rebuilds + 1
    /\ lastRebuild' = IF dbUp THEN "up" ELSE "down"
    /\ UNCHANGED <<crash_time, waiting_executions, buildPc, dbUp, outages, callerVars>>
    /\ UNCHANGED <<regVars, permVars>>

(***************************************************************************)
(* Claims about the connection pool manager.                                *)
(***************************************************************************)

\* Once set, the signal is never cleared, so interaction() never takes the
\* branch that clears it and calls _rebuild_pool.
RebuildBranchDead ==
    /\ rebuilds = 0 /\ crash_time = 0
    /\ \A c \in Callers : pc[c] \in {"attempt", "backoff", "final"} => stable_pool

\* C1: a caller whose retries run out while the readiness signal is set
\* clears the signal, records a crash time and starts a pool rebuild.
C1_ExhaustionStartsRebuild ==
    [][\A c \in Callers :
          (pc[c] = "attempt" /\ pc'[c] = "final" /\ stable_pool)
              => (~stable_pool' /\ crash_time' # 0 /\ rebuilds' = rebuilds + 1)]_vars

\* C3: after _rebuild_pool ran while the database accepted connections, the
\* pool is open again and the readiness signal is set.
C3_RebuildRestoresReady ==
    lastRebuild = "up" => (connection_pool = "open" /\ stable_pool)

\* C4: func is never started more than max_retries + 1 times; a call that
\* ends with an operational error made exactly max_retries + 1 attempts, slept
\* retry_delay between the first max_retries of them, and raises the error of
\* its last attempt; no call ends without a result or an error.
C4_BoundedRetries ==
    \A c \in Callers :
        /\ attempts[c] <= max_retries + 1
        /\ pc[c] # "fell_through"
        /\ (pc[c] = "raised" /\ err[c][1] = "op")
               => /\ attempts[c] = max_retries + 1
                  /\ err[c] = <<"op", max_retries + 1>>
                  /\ backoffs[c] = (max_retries - 1) * retry_delay
        /\ pc[c] = "raised" => err[c][2] = attempts[c]

C4_Witness ==
    \E c \in Callers : pc[c] = "raised" /\ err[c] = <<"op", max_retries + 1>>

\* C5: func is only ever running while the readiness signal is set, and a
\* caller that found the signal clear has, before its first attempt, registered,
\* waited for the signal, slept stagger_time times the counter it read on
\* arrival, and deregistered.
C5_NoAttemptBeforeReady ==
    \A c \in Callers :
        /\ pc[c] \in {"attempt", "final"} => stable_pool
        /\ pc[c] \in {"waiting", "stagger"} => (gated[c] /\ registered[c] /\ attempts[c] = 0)
        /\ pc[c] = "stagger" => stable_pool
        /\ (gated[c] /\ attempts[c] >= 1)
               => (~registered[c] /\ slept[c] = stagger_time * regPos[c])

C5_Witness ==
    \E c \in Callers : gated[c] /\ pc[c] = "attempt" /\ regPos[c] = 2 /\ slept[c] = 2

\* C28: an error of func that is not an operational error is raised to the
\* caller by the attempt it occurred in: that attempt is the caller's last, and
\* the step that raises it changes neither the readiness signal nor the pool,
\* starts no rebuild and counts no retry.
C28_OtherErrorPropagatesAtOnce ==
    [][\A c \in Callers :
          /\ (pc[c] \in {"attempt", "final"} /\ pc'[c] = "raised" /\ err'[c][1] = "other")
                 => /\ err'[c] = <<"other", attempts[c]>>
                    /\ attempts'[c] = attempts[c] /\ retries'[c] = retries[c]
                    /\ backoffs'[c] = backoffs[c]
                    /\ stable_pool' = stable_pool /\ connection_pool' = connection_pool
                    /\ rebuilds' = rebuilds /\ crash_time' = crash_time
          /\ pc[c] = "raised"
                 => (pc'[c] = "raised" /\ attempts'[c] = attempts[c] /\ err'[c] = err[c])]_vars

C28_Witness ==
    \E c \in Callers :
        /\ pc[c] = "raised" /\ err[c] = <<"other", 2>> /\ retries[c] = 1
        /\ stable_pool /\ rebuilds = 0

\* The callers that found the signal clear in the not-ready episode (the
\* signal, once set, is never cleared: there is one episode).
Waiters == {c \in Callers : gated[c]}

\* C32: the waiter counter equals the number of callers that registered and
\* have not deregistered; it is never negative and is 0 when no caller waits
\* or staggers; the waiters of the not-ready episode hold pairwise distinct
\* positions 0..n-1, handed out in the order they registered, and each
\* sleeps stagger_time times its position.
C32_CounterCountsWaiters ==
    /\ [](/\ waiting_executions = Cardinality({c \in Callers : registered[c]})
          /\ waiting_executions >= 0
          /\ (\A c \in Callers : pc[c] \notin {"waiting", "stagger"})
                 => waiting_executions = 0
          /\ \A c \in Callers : registered[c] <=> pc[c] \in {"waiting", "stagger"}
          /\ \A c \in Waiters, d \in Waiters : c # d => regPos[c] # regPos[d]
          /\ {regPos[c] : c \in Waiters} = 0 .. (Cardinality(Waiters) - 1)
          /\ \A c \in Waiters : wait_time[c] = regPos[c] * stagger_time)
    /\ [][\A c \in Callers :
            (~registered[c] /\ registered'[c])
                => /\ regPos'[c] = Cardinality(Waiters)
                   /\ waiting_executions' = waiting_executions + 1]_vars

C32_Witness ==
    /\ waiting_executions = 1
    /\ \E c \in Callers, d \in Callers, e \in Callers :
          /\ regPos[c] = 0 /\ regPos[d] = 1 /\ regPos[e] = 2
          /\ gated[c] /\ gated[d] /\ gated[e]
          /\ pc[c] = "waiting" /\ registered[c]
          /\ ~registered[d] /\ slept[d] = stagger_time
          /\ ~registered[e] /\ slept[e] = 2 * stagger_time

(***************************************************************************)
(* Part 2.  fetch, commit and the character / pool registry.                *)
(*                                                                          *)
(* The two tables are the committed state of the database.  A connection    *)
(* holds the statements executed on it and not yet committed; conn.commit() *)
(* applies them in order, in one step.  A statement executed on a connection *)
(* reads the committed tables as changed by that connection's own           *)
(* uncommitted statements.                                                  *)
(***************************************************************************)

\* Discord member ids; a pool id is the id of an account.
Accounts == {1, 2}
PoolIds == Accounts

\* Names as a member types them.  "long" stands for a name of 33 characters.
InputNames == {"a", "A", ""}

\* The registry tasks (commands and listeners running concurrently).
Tasks == {"t1", "t2"}

\* The connections of the pool (create_pool(minsize=1, maxsize=5)).
Conns == {"k1", "k2"}

\* How many registry operations are started in all.
MaxOps == 3

\* How many character rows are ever inserted.
MaxCharRows == 3

\* How many statements fail in all.
MaxFaults == 1

\* configuration["max_characters_per_pool"]
max_characters_per_pool == 2

\* The longest name add_character_to_db accepts.
max_name_length == 32

\* How many operations a sequence of calls, one after the other, has.
MaxSeqOps == 4

\* The first and the last key of configuration["level_req"].
min_level == 1
max_level == 2

\* A keyword argument that is not given, for a name and for a number.
NoName == "<absent>"
NoInt == 0 - 100

\* The keyword arguments of set_properties_of_character the model follows.
NoKwargs == [character_name |-> NoName, level |-> NoInt, owner_id |-> NoInt,
             pool_id |-> NoInt, active_on_account |-> NoInt, total_xp |-> NoInt,
             words_cached |-> NoInt, level_notification |-> NoInt]

\* str.lower() on the names of the model.
Lower(name) == IF name = "A" THEN "a" ELSE name

\* len() on the names of the model.
NameLen(name) == IF name = "" THEN 0 ELSE IF name = "long" THEN 33 ELSE 1

\* Does the name contain ' or ".
HasQuote(name) == name = "o'c"

\* The value get_pool_by_account returns when several rows match: fetch returns
\* a list of rows, and pool[0] is the first row, a tuple (p,), written -p here.
RowTuple(p) == 0 - p
IsRowTuple(v) == v < 0

Stmt(k, x, y, z, n) == [k |-> k, x |-> x, y |-> y, z |-> z, n |-> n]

\* An INSERT that stores another pool than the one asked for (mutant of AccInsert).
AccInsertOtherPool(a, p) == Stmt("acc_insert", a, p + 1, 0, "")

\* INSERT INTO acc_table (account_id, pool_id) VALUES (a, p)
AccInsert(a, p) == Stmt("acc_insert", a, p, 0, "")
\* UPDATE acc_table SET pool_id = to WHERE pool_id = from
AccMovePool(from, to) == Stmt("acc_move_pool", from, to, 0, "")
\* UPDATE acc_table SET pool_id = to WHERE pool_id = from AND account_id != a
AccMovePoolExcept(from, to, a) == Stmt("acc_move_pool_except", from, to, a, "")
\* UPDATE acc_table SET pool_id = to WHERE account_id = a
AccSetPool(a, to) == Stmt("acc_set_pool", a, to, 0, "")
\* UPDATE char_table SET pool_id = to WHERE pool_id = from
CharMovePool(from, to) == Stmt("char_move_pool", from, to, 0, "")
\* UPDATE char_table SET pool_id = to WHERE owner_id = a
CharSetPoolByOwner(a, to) == Stmt("char_set_pool_by_owner", a, to, 0, "")
\* UPDATE char_table SET active_on_account = 0 WHERE active_on_account = a
CharDeactivate(a) == Stmt("char_deactivate", a, 0, 0, "")
\* UPDATE char_table SET active_on_account = a WHERE pool_id = p AND character_name = 'n'
CharActivate(a, p, n) == Stmt("char_activate", a, p, 0, n)
\* INSERT INTO char_table (character_name, owner_id, pool_id, active_on_account)
\* VALUES ('n', owner, p, active)
CharInsert(n, owner, p, active) == Stmt("char_insert", owner, p, active, n)

\* UPDATE char_table SET <the given columns> WHERE character_id = id
CharUpdate(id, changes) ==
    [k |-> "char_update", x |-> id, y |-> 0, z |-> 0, n |-> "", set |-> changes]
\* DELETE FROM char_table WHERE character_id = id
CharDelete(id) == Stmt("char_delete", id, 0, 0, "")

\* The row c after "SET <the given columns>".
UpdatedRow(c, ch) ==
    [c EXCEPT !.name = IF ch.character_name = NoName THEN @ ELSE ch.character_name,
              !.level = IF ch.level = NoInt THEN @ ELSE ch.level,
              !.owner_id = IF ch.owner_id = NoInt THEN @ ELSE ch.owner_id,
              !.pool_id = IF ch.pool_id = NoInt THEN @ ELSE ch.pool_id,
              !.active_on_account =
                  IF ch.active_on_account = NoInt THEN @ ELSE ch.active_on_account,
              !.total_xp = IF ch.total_xp = NoInt THEN @ ELSE ch.total_xp,
              !.words_cached = IF ch.words_cached = NoInt THEN @ ELSE ch.words_cached,
              !.level_notification =
                  IF ch.level_notification = NoInt THEN @ ELSE ch.level_notification]

\* character_name = 'n' in a WHERE clause: the comparison of the column's
\* collation, which ignores letter case.
SqlNameEq(stored, given) == Lower(stored) = Lower(given)

\* "SET pool_id = to" on the rows whose pool_id is in from.
SetPool(rows, from, to) ==
    [i \in 1..Len(rows) |-> IF rows[i] \in from THEN to ELSE rows[i]]

\* The INSERT of add_character_to_db names four columns; the others take the
\* defaults of the table: the first level, no xp, no cached words, and a
\* notification still to come.

\* The tables d after statement s.
ApplyStmt(d, s) ==
    CASE s.k = "acc_insert" ->
           [d EXCEPT !.accounts = [@ EXCEPT ![s.x] = Append(@, s.y)]]
      [] s.k = "acc_move_pool" ->
           [d EXCEPT !.accounts =
               [a \in Accounts |-> SetPool(@[a], {s.x}, s.y)]]
      [] s.k = "acc_move_pool_except" ->
           [d EXCEPT !.accounts =
               [a \in Accounts |-> IF a # s.z THEN SetPool(@[a], {s.x}, s.y) ELSE @[a]]]
      [] s.k = "acc_set_pool" ->
           [d EXCEPT !.accounts =
               [a \in Accounts |-> IF a = s.x THEN SetPool(@[a], PoolIds, s.y) ELSE @[a]]]
      [] s.k = "char_move_pool" ->
           [d EXCEPT !.characters =
               {IF c.pool_id = s.x THEN [c EXCEPT !.pool_id = s.y] ELSE c : c \in @}]
      [] s.k = "char_set_pool_by_owner" ->
           [d EXCEPT !.characters =
               {IF c.owner_id = s.x THEN [c EXCEPT !.pool_id = s.y] ELSE c : c \in @}]
      [] s.k = "char_deactivate" ->
           [d EXCEPT !.characters =
               {IF c.active_on_account = s.x THEN [c EXCEPT !.active_on_account = 0]
                ELSE c : c \in @}]
      [] s.k = "char_activate" ->
           [d EXCEPT !.characters =
               {IF c.pool_id = s.y /\ SqlNameEq(c.name, s.n)
                THEN [c EXCEPT !.active_on_account = s.x] ELSE c : c \in @}]
      [] s.k = "char_insert" ->
           [d EXCEPT !.characters = @ \cup {[id |-> d.next_id, name |-> s.n,
                                             owner_id |-> s.x, pool_id |-> s.y,
                                             active_on_account |-> s.z,
                                             level |-> min_level, total_xp |-> 0,
                                             words_cached |-> 0,
                                             level_notification |-> 1]},
                     !.next_id = @ + 1]
      [] s.k = "char_update" ->
           [d EXCEPT !.characters =
               {IF c.id = s.x THEN UpdatedRow(c, s.set) ELSE c : c \in @}]
      [] s.k = "char_delete" ->
           [d EXCEPT !.characters = {c \in @ : c.id # s.x}]
      [] OTHER -> d

RECURSIVE ApplyAll(_, _)
ApplyAll(d, stmts) ==
    IF stmts = <<>> THEN d ELSE ApplyAll(ApplyStmt(d, Head(stmts)), Tail(stmts))

\* cursor.execute(s) raises IntegrityError: a second row for a unique key, be
\* the first row committed or inserted on a connection and not yet committed
\* (the database makes the second INSERT wait for the first, then refuses it).
StmtRaises(d, s) ==
    /\ s.k = "acc_insert" /\ accountKey
    /\ \/ d.accounts[s.x] # <<>>
       \/ \E k \in Conns : \E i \in 1..Len(pending[k]) :
             pending[k][i].k = "acc_insert" /\ pending[k][i].x = s.x

\* What a statement executed on connection k reads.
View(k) == ApplyAll(db, pending[k])

\* The connections no task holds.
FreeConns == {k \in Conns : \A t \in Tasks : task[t].conn # k}

None == [kind |-> "none", val |-> ""]
Ok == [kind |-> "ok", val |-> ""]
Notify(msg) == [kind |-> "notify", val |-> msg]     \* notifyUserException(msg)
Internal(what) == [kind |-> "internal", val |-> what] \* any other exception

\* The character an xp accrual read: the fields of player_character it uses.
NoSnap == [total |-> 0, cached |-> 0, level |-> 0, notif |-> 0]

\* on_message and the add command.
XpOps == {"on_message", "cmd_xp_add"}

Idle == [op |-> "none", a |-> 0, b |-> 0, name |-> "", pc |-> "idle", ret |-> "",
         gpAcc |-> 0, pool |-> 0, pool2 |-> 0, stmts |-> <<>>, si |-> 0,
         conn |-> "none", after |-> "", res |-> None, wrote |-> {}, expect |-> "none",
         id |-> 0, kw |-> NoKwargs, out |-> 0, snap |-> NoSnap, gain |-> 0]

RegInit ==
    /\ db = [accounts |-> [a \in Accounts |-> <<>>], characters |-> {}, next_id |-> 1]
    /\ whole = db
    /\ pending = [k \in Conns |-> <<>>]
    /\ task = [t \in Tasks |-> Idle]
    /\ opsStarted = 0
    /\ faults = 0
    /\ accountKey \in BOOLEAN

\* The operation ends: its locals are gone, its outcome stays.
Finished(r, e) ==
    [Idle EXCEPT !.op = r.op, !.a = r.a, !.b = r.b, !.pc = "done",
                 !.res = e, !.wrote = r.wrote, !.expect = r.expect,
                 !.name = IF r.op \in {"switch_active_character", "get_character"}
                          THEN Lower(r.name) ELSE "",
                 !.out = IF e.kind = "ok" /\ r.op # "add_character_to_db" THEN r.out ELSE 0,
                 !.id = IF r.op = "set_properties_of_character" THEN r.id ELSE 0,
                 !.kw = IF r.op = "set_properties_of_character" THEN r.kw ELSE NoKwargs,
                 !.snap = IF r.op \in XpOps THEN [NoSnap EXCEPT !.total = r.snap.total]
                          ELSE IF r.op = "cmd_level_up" THEN r.snap
                          ELSE NoSnap,
                 !.gain = IF r.op \in XpOps THEN r.gain ELSE 0]
\* on_message: "except notifyUserException: pass".
Raise(r, e) == Finished(r, IF r.op = "on_message" /\ e.kind = "notify" THEN Ok ELSE e)
Return(r) == Finished(r, Ok)
\* "await self.commit(...)" with the statements of one group.
StartCommit(r, stmts, after) ==
    [r EXCEPT !.pc = "commit", !.stmts = stmts, !.si = 0, !.after = after]

Running(t) == task[t].pc \notin {"idle", "done"}

\* A command or a listener calls a registry operation.  The tasks are
\* interchangeable: the operation runs in the first task that is free.
Start(t, op, a, b, name) ==
    /\ ~Running(t)
    /\ t = "t2" => Running("t1")
    /\ opsStarted < MaxOps
    /\ opsStarted' = opsStarted + 1
    /\ op = "add_character_to_db" => db.next_id <= MaxCharRows
    /\ task' = [task EXCEPT ![t] =
          [Idle EXCEPT !.op = op, !.a = a, !.b = b, !.name = name,
                       !.pc = IF op = "merge_pools" THEN "merge_fetch" ELSE "gp",
                       !.gpAcc = a,
                       !.ret = CASE op = "add_character_to_db" -> "add_fetch"
                                 [] op = "switch_active_character" -> "sw_fetch"
                                 [] op = "separate_pools" -> "sep_a"
                                 [] OTHER -> ""]]
    /\ UNCHANGED <<db, whole, pending, faults, accountKey>>

StartAny(t) ==
    \/ \E a \in Accounts, n \in InputNames : Start(t, "add_character_to_db", a, 0, n)
    \/ \E a \in PoolIds, b \in PoolIds : Start(t, "merge_pools", a, b, "")
    \/ \E a \in Accounts, n \in InputNames \ {""} :
           Start(t, "switch_active_character", a, 0, n)
    \/ \E a \in Accounts, b \in Accounts : Start(t, "separate_pools", a, b, "")

\* A separation that leaves a's characters with the others (mutant of
\* SeparateStatements).
SeparateStatementsKeepCharacters(a, b, shared) ==
    IF shared = a
    THEN <<AccMovePoolExcept(shared, b, a), CharMovePool(shared, b)>>
    ELSE <<AccSetPool(a, a), CharSetPoolByOwner(a, a)>>

\* A separation that moves a's characters and not its account (mutant of
\* SeparateStatements).
SeparateStatementsKeepAccount(a, b, shared) ==
    IF shared = a
    THEN <<AccMovePoolExcept(shared, b, a), CharMovePool(shared, b),
           CharSetPoolByOwner(a, a)>>
    ELSE <<CharSetPoolByOwner(a, a)>>

SeparateStatements(a, b, shared) ==
    IF shared = a
    THEN <<AccMovePoolExcept(shared, b, a), CharMovePool(shared, b),
           CharSetPoolByOwner(a, a)>>
    ELSE <<AccSetPool(a, a), CharSetPoolByOwner(a, a)>>

\* get_pool_by_account returns v to the operation that called it; separate_pools
\* goes on to its checks and to its commit without another await.
GpReturn(r, v) ==
    CASE r.ret = "sep_a" ->
           IF r.a = r.b
           THEN Raise(r,
                      Notify("You need to specify two different accounts that share a pool."))
           ELSE [r EXCEPT !.pool = v, !.pc = "gp", !.gpAcc = r.b, !.ret = "sep_b"]
      [] r.ret = "sep_b" ->
           IF r.pool # v
           THEN Raise(r,
                      Notify("You need to specify two different accounts that share a pool."))
           ELSE StartCommit([r EXCEPT !.pool2 = v],
                            SeparateStatements(r.a, r.b, r.pool), "done")
      [] r.ret = "gp_done" -> Return([r EXCEPT !.out = v])
      [] r.ret = "mv" ->
           [r EXCEPT !.pool = v, !.pc = "sp",
                     !.kw = [NoKwargs EXCEPT !.owner_id = r.a, !.pool_id = v,
                                             !.active_on_account = 0]]
      [] r.ret = "cm_a" -> [r EXCEPT !.pool = v, !.pc = "gp", !.gpAcc = r.b, !.ret = "cm_b"]
      [] r.ret = "cm_b" -> [r EXCEPT !.pool2 = v, !.pc = "confirm"]
      [] r.ret = "cmv" -> [r EXCEPT !.pool2 = v, !.pc = "confirm"]
      [] OTHER -> [r EXCEPT !.pool = v, !.pc = r.ret]

\* configuration["xp_rate"]: how many words make one xp.
xp_rate == 2

\* configuration["level_req"]: the xp a level asks for.
XpPerLevel == 2
level_req(l) == (l - min_level) * XpPerLevel

\* How many words a message has, and the amounts given to the add command.
Words == {1, 2}
Amounts == {2, 0 - 1}

\* _proccess_msg_for_rp: the xp gained and the words left over.
ProcessMsgForRp(cached, words) ==
    LET overflow == (words + cached) % xp_rate
    IN [xp |-> (words + cached - overflow) \div xp_rate, overflow |-> overflow]

\* An accrual that forgets its gain (mutant of NewTotal).
NewTotalForgetsGain(total, gain) == total

\* "character.total_xp += gained_xp" in on_message, and in the add command
\* "total_xp + amount if total_xp + amount > 0 else 0".
NewTotal(total, gain) == IF total + gain > 0 THEN total + gain ELSE 0

\* _get_xp_until_lvl_up: level_req[level + 1] - total_xp, or None (NoInt) when
\* level_req has no such key.
XpUntilLvlUp(level, total) ==
    IF level + 1 >= min_level /\ level + 1 <= max_level
    THEN level_req(level + 1) - total ELSE NoInt

\* check_and_notify_level_up on the character object the handler holds:
\* "if xp_til_level and xp_til_level <= 0 and character.level_notification".
CheckAndNotify(r) ==
    LET total == IF r.kw.total_xp = NoInt THEN r.snap.total ELSE r.kw.total_xp
        til == XpUntilLvlUp(r.snap.level, total)
    IN IF til # NoInt /\ til # 0 /\ til <= 0 /\ r.snap.notif # 0
       THEN [r EXCEPT !.pc = "sp", !.kw = [NoKwargs EXCEPT !.level_notification = 0]]
       ELSE Return(r)

\* The snapshot of the row c.
Snap(c) == [total |-> c.total_xp, cached |-> c.words_cached, level |-> c.level,
            notif |-> c.level_notification]

\* on_message after get_active_character returned the row c (no periodic cap
\* is configured, so roleplay_xp is written back as it was read).
OnMessage(r, c) ==
    LET p == ProcessMsgForRp(c.words_cached, r.b)
        r2 == [r EXCEPT !.id = c.id, !.out = c.id, !.snap = Snap(c), !.gain = p.xp]
    IN IF p.xp # 0 \/ p.overflow # 0
       THEN [r2 EXCEPT !.pc = "sp",
                       !.kw = [NoKwargs EXCEPT !.total_xp = NewTotal(c.total_xp, p.xp),
                                               !.words_cached = p.overflow]]
       ELSE CheckAndNotify(r2)

\* The add command after _get_member_and_char_from_args returned the row c.
AddXp(r, c) ==
    [r EXCEPT !.id = c.id, !.out = c.id, !.snap = Snap(c), !.gain = r.b, !.pc = "sp",
              !.kw = [NoKwargs EXCEPT !.total_xp = NewTotal(c.total_xp, r.b)]]

\* The operation goes on after "await self.commit(...)" returned.
AfterCommit(r) ==
    CASE r.after = "gp" -> GpReturn(r, r.gpAcc)
      [] r.after = "add_refetch" -> [r EXCEPT !.pc = "add_refetch"]
      [] r.after = "xp_check" -> CheckAndNotify(r)
      [] OTHER -> Return(r)

\* get_pool_by_account: the SELECT, then the row's pool or the INSERT.
GpFetch(t) ==
    /\ task[t].pc = "gp"
    /\ \E k \in FreeConns :
         LET r == task[t]
             rows == View(k).accounts[r.gpAcc]
         IN task' = [task EXCEPT ![t] =
               IF Len(rows) = 0
               THEN StartCommit(r, <<AccInsert(r.gpAcc, r.gpAcc)>>, "gp")
               ELSE IF Len(rows) = 1 THEN GpReturn(r, rows[1])
               ELSE GpReturn(r, RowTuple(rows[1]))]
    /\ UNCHANGED <<db, whole, pending, opsStarted, faults, accountKey>>

\* The checks of add_character_to_db on the fetched names, in the code's order.
AddValidationStrict(name, names, n) ==
    IF n > 0 /\ n > max_characters_per_pool THEN "Reached character limit"
    ELSE IF n > 0 /\ Lower(name) \in names
         THEN "A character with the given name already exists"
    ELSE IF NameLen(name) > max_name_length THEN "The desired name is too long."
    ELSE "ok"

AddValidation(name, names, n) ==
    IF n > 0 /\ n >= max_characters_per_pool THEN "Reached character limit"
    ELSE IF n > 0 /\ Lower(name) \in names
         THEN "A character with the given name already exists"
    ELSE IF NameLen(name) > max_name_length THEN "The desired name is too long."
    ELSE "ok"

\* "if not name: name = 'character'", then name.lower() in the INSERT.
StoredName(name) == Lower(IF name = "" THEN "character" ELSE name)

\* An INSERT into the pool called after the account (mutant of AddStatements).
AddStatementsOwnPool(a, p, name) ==
    <<CharDeactivate(a), CharInsert(StoredName(name), a, a, a)>>

AddStatements(a, p, name) ==
    <<CharDeactivate(a), CharInsert(StoredName(name), a, p, a)>>

\* add_character_to_db: SELECT the pool's names, validate, start the commit.
AddFetch(t) ==
    /\ task[t].pc = "add_fetch"
    /\ \E k \in FreeConns :
         LET r == task[t]
             inPool == {c \in View(k).characters : c.pool_id = r.pool}
             names == {c.name : c \in inPool}
             v == AddValidation(r.name, names, Cardinality(inPool))
             full == /\ db.accounts[r.a] = <<r.pool>>
                     /\ Cardinality({c \in db.characters : c.pool_id = r.pool})
                            >= max_characters_per_pool
             r2 == IF r.op = "add_character_to_db"
                   THEN [r EXCEPT !.expect = IF full THEN "capacity" ELSE "none"]
                   ELSE r
         IN task' = [task EXCEPT ![t] =
               IF IsRowTuple(r.pool) THEN Raise(r, Internal("ProgrammingError"))
               ELSE IF v # "ok" THEN Raise(r2, Notify(v))
               ELSE StartCommit(r2, AddStatements(r.a, r.pool, r.name), "add_refetch")]
    /\ UNCHANGED <<db, whole, pending, opsStarted, faults, accountKey>>

\* The level_up command after get_active_character returned the row c:
\* "if not xp_remaining" takes None and 0 alike for the maximum level.
LevelUp(r, c) ==
    LET xp_remaining == XpUntilLvlUp(c.level, c.total_xp)
        r2 == [r EXCEPT !.id = c.id, !.out = c.id, !.snap = Snap(c)]
    IN IF xp_remaining = NoInt \/ xp_remaining = 0 THEN Return(r2)
       ELSE IF xp_remaining <= 0
       THEN [r2 EXCEPT !.pc = "sp",
                       !.kw = [NoKwargs EXCEPT !.level = c.level + 1,
                                               !.level_notification = 1]]
       ELSE Return(r2)

\* A lookup (get_active_character, get_character) returns the character id to
\* its caller: to the command that asked for it (_get_member_and_char_from_args),
\* which goes on, or to the caller of the registry.  id 0 stands for None.
LookupReturn(r, id, rows) ==
    CASE r.op = "cmd_delete" -> [r EXCEPT !.id = id, !.pc = "confirm"]
      [] r.op = "cmd_move" ->
           [r EXCEPT !.id = id, !.pc = "gp", !.gpAcc = r.b, !.ret = "cmv"]
      [] r.op = "on_message" -> OnMessage(r, CHOOSE c \in rows : c.id = id)
      [] r.op = "cmd_xp_add" -> AddXp(r, CHOOSE c \in rows : c.id = id)
      [] r.op = "cmd_level_up" -> LevelUp(r, CHOOSE c \in rows : c.id = id)
      [] OTHER -> Return([r EXCEPT !.out = id])

\* add_character_to_db: SELECT the account's active row, build the result.
AddRefetch(t) ==
    /\ task[t].pc = "add_refetch"
    /\ \E k \in FreeConns :
         LET r == task[t]
             rows == {c \in View(k).characters : c.active_on_account = r.a}
         IN task' = [task EXCEPT ![t] =
               IF Cardinality(rows) = 1
               THEN LookupReturn(r, (CHOOSE c \in rows : TRUE).id, rows)
               ELSE Raise(r, Internal("ValueError"))]
    /\ UNCHANGED <<db, whole, pending, opsStarted, faults, accountKey>>

\* The checks of merge_pools on the fetched rows: n rows, distinct different names.
MergeValidationNoDuplicateCheck(n, distinct) ==
    IF n > max_characters_per_pool
    THEN "Merging these two pools would exceed the character limit"
    ELSE "ok"

MergeValidation(n, distinct) ==
    IF n > max_characters_per_pool
    THEN "Merging these two pools would exceed the character limit"
    ELSE IF n # distinct
    THEN "There are multiple characters with the same name in the pools you want to merge"
    ELSE "ok"

MergeStatementsAccountsOnly(a, b) == <<AccMovePool(a, b)>>

MergeStatements(a, b) == <<AccMovePool(a, b), CharMovePool(a, b)>>

\* What the registry says of a merge of pools a and b on tables d.
MergeExpectation(d, a, b) ==
    LET inA == {c \in d.characters : c.pool_id = a}
        inB == {c \in d.characters : c.pool_id = b}
        both == inA \cup inB
    IN IF a = b \/ Cardinality(both) > max_characters_per_pool
          \/ (\E x \in inA, y \in inB : x.name = y.name)
       THEN "reject"
       ELSE IF \A x \in both, y \in both : x.name = y.name => x = y
       THEN "accept"
       ELSE "none"

\* merge_pools: the a == b check, the SELECT, the checks, start the commit.
MergeFetch(t) ==
    /\ task[t].pc = "merge_fetch"
    /\ LET r == [task[t] EXCEPT !.expect = MergeExpectation(db, task[t].a, task[t].b)]
       IN IF r.a = r.b
          THEN task' = [task EXCEPT ![t] = Raise(r, Notify("Cannot merge the same pool."))]
          ELSE \E k \in FreeConns :
                 LET rows == {c \in View(k).characters : c.pool_id \in {r.a, r.b}}
                     v == MergeValidation(Cardinality(rows),
                                          Cardinality({c.name : c \in rows}))
                 IN task' = [task EXCEPT ![t] =
                       IF v # "ok" THEN Raise(r, Notify(v))
                       ELSE StartCommit(r, MergeStatements(r.a, r.b), "done")]
    /\ UNCHANGED <<db, whole, pending, opsStarted, faults, accountKey>>

SwitchStatements(a, p, name) == <<CharDeactivate(a), CharActivate(a, p, name)>>

\* switch_active_character: SELECT the named character, start the commit.
SwFetch(t) ==
    /\ task[t].pc = "sw_fetch"
    /\ \E k \in FreeConns :
         LET r == task[t]
             char == {c \in View(k).characters :
                         c.pool_id = r.pool /\ SqlNameEq(c.name, r.name)}
         IN task' = [task EXCEPT ![t] =
               IF IsRowTuple(r.pool) THEN Raise(r, Internal("ProgrammingError"))
               ELSE IF char # {}
               THEN StartCommit(r, SwitchStatements(r.a, r.pool, r.name), "done")
               ELSE Raise(r, Notify("The account doesn't have access to that character"))]
    /\ UNCHANGED <<db, whole, pending, opsStarted, faults, accountKey>>

\* A lookup that makes a character whenever none is active (mutant of
\* ActiveCharacterOutcome).
ActiveCharacterOutcomeAlwaysCreate(chars, a) ==
    LET act == {c \in chars : c.active_on_account = a}
    IN IF chars = {} \/ act = {} THEN "create"
       ELSE IF Cardinality(act) > 1 THEN "more than one active"
       ELSE "active"

\* get_active_character on the characters of the account's pool: what the
\* "if len(characters) == 0" and the loop over the characters come to.
ActiveCharacterOutcome(chars, a) ==
    LET act == {c \in chars : c.active_on_account = a}
    IN IF chars = {} THEN "create"
       ELSE IF Cardinality(act) > 1 THEN "more than one active"
       ELSE IF act = {} THEN "none active"
       ELSE "active"

\* get_active_character after get_available_characters fetched the pool's
\* rows: return the active one, raise, or call add_character_to_db.
GaFetch(t) ==
    /\ task[t].pc = "ga_fetch"
    /\ \E k \in FreeConns :
         LET r == task[t]
             chars == {c \in View(k).characters : c.pool_id = r.pool}
             o == ActiveCharacterOutcome(chars, r.a)
         IN task' = [task EXCEPT ![t] =
               IF IsRowTuple(r.pool) THEN Raise(r, Internal("ProgrammingError"))
               ELSE IF o = "create"
               THEN [r EXCEPT !.name = "character", !.pc = "gp", !.gpAcc = r.a,
                              !.ret = "add_fetch"]
               ELSE IF o = "more than one active"
               THEN Raise(r, Notify("The account has more than one active character"))
               ELSE IF o = "none active"
               THEN Raise(r, Notify("The account doesn't have any active characters"))
               ELSE LookupReturn(r, (CHOOSE c \in chars : c.active_on_account = r.a).id,
                                 chars)]
    /\ UNCHANGED <<db, whole, pending, opsStarted, faults, accountKey>>

\* get_character on the rows fetch found: fetch gives a tuple for one row and
\* a list otherwise; a list that is not empty matches neither branch and the
\* function ends without a return statement (id 0 stands for None).
CharacterLookup(rows) ==
    IF Cardinality(rows) = 1
    THEN [kind |-> "return", id |-> (CHOOSE c \in rows : TRUE).id]
    ELSE IF rows = {} THEN [kind |-> "raise", id |-> 0]
    ELSE [kind |-> "return", id |-> 0]

\* get_character after its SELECT.
GcFetch(t) ==
    /\ task[t].pc = "gc_fetch"
    /\ \E k \in FreeConns :
         LET r == task[t]
             rows == {c \in View(k).characters :
                         c.pool_id = r.pool /\ SqlNameEq(c.name, r.name)}
             l == CharacterLookup(rows)
         IN task' = [task EXCEPT ![t] =
               IF IsRowTuple(r.pool) THEN Raise(r, Internal("ProgrammingError"))
               ELSE IF l.kind = "raise"
               THEN Raise(r, Notify("The account doesn't have access to that character"))
               ELSE LookupReturn(r, l.id, rows)]
    /\ UNCHANGED <<db, whole, pending, opsStarted, faults, accountKey>>

\* set_properties_of_character: "len(n) <= 32 and '"' not in n and "'" not in n"
NameValid(n) == NameLen(n) <= max_name_length /\ ~HasQuote(n)

\* "kwargs['level'] >= self.min_level and kwargs['level'] <= self.max_level"
LevelValid(l) == l >= min_level /\ l <= max_level

\* The checks of set_properties_of_character, in the code's order (a validation
\* that stops after the name: mutant of SetPropertiesValidation).
SetPropertiesValidationNameOnly(kw) ==
    IF kw.character_name # NoName /\ ~NameValid(kw.character_name)
    THEN "The specified name needs to be 32 characters or less"
    ELSE IF kw = NoKwargs THEN "No valid changes given"
    ELSE "ok"

SetPropertiesValidation(kw) ==
    IF kw.character_name # NoName /\ ~NameValid(kw.character_name)
    THEN "The specified name needs to be 32 characters or less"
    ELSE IF kw.total_xp # NoInt /\ kw.total_xp < 0 THEN "Invalid value for total_xp"
    ELSE IF kw.level # NoInt /\ ~LevelValid(kw.level) THEN "Invalid value for level"
    ELSE IF kw.words_cached # NoInt /\ kw.words_cached < 0
    THEN "Invalid value for words_cached"
    ELSE IF kw.level_notification # NoInt /\ kw.level_notification \notin {0, 1}
    THEN "Invalid value for level_notification"
    ELSE IF kw = NoKwargs THEN "No valid changes given"
    ELSE "ok"

\* The dictionary "changes": the name is stored in lower case.
SetPropertiesChanges(kw) ==
    [kw EXCEPT !.character_name = IF @ = NoName THEN @ ELSE Lower(@)]

\* set_properties_of_character up to its commit; int() of a row tuple is a
\* TypeError.
SetProperties(t) ==
    /\ task[t].pc = "sp"
    /\ LET r == task[t]
           v == SetPropertiesValidation(r.kw)
       IN task' = [task EXCEPT ![t] =
             IF v # "ok" THEN Raise(r, Notify(v))
             ELSE IF r.kw.pool_id # NoInt /\ IsRowTuple(r.kw.pool_id)
             THEN Raise(r, Internal("TypeError"))
             ELSE StartCommit(r, <<CharUpdate(r.id, SetPropertiesChanges(r.kw))>>,
                              IF r.op \in XpOps /\ r.kw.total_xp # NoInt
                              THEN "xp_check" ELSE "done")]
    /\ UNCHANGED <<db, whole, pending, opsStarted, faults, accountKey>>

\* Is the group of n statements, si of them executed, ready for conn.commit()
\* (mutant of CommitPoint: a connection that commits after every statement).
CommitPointEachStatement(si, n) == si >= 1

\* commit(): conn.commit() comes after the loop over the statements.
CommitPoint(si, n) == si = n

\* The wrapper lets a call through: the signal is set and the pool is open.
PoolReady == stable_pool /\ connection_pool = "open"

\* The tables an operation's own commit changed.
Changed(d, e) ==
    (IF d.accounts # e.accounts THEN {"acc"} ELSE {}) \cup
    (IF d.characters # e.characters THEN {"char"} ELSE {})

\* commit(): acquire a connection on the first statement, execute the next
\* statement on it; an exception leaves the "async with" and releases it.
ExecStmt(t) ==
    /\ task[t].pc = "commit"
    /\ task[t].si < Len(task[t].stmts)
    /\ \E k \in (IF task[t].conn = "none" THEN FreeConns ELSE {task[t].conn}) :
         LET r == task[t]
             s == r.stmts[r.si + 1]
         IN IF StmtRaises(View(k), s)
            THEN /\ task' = [task EXCEPT ![t] =
                       Raise(r, Internal("IntegrityError"))]
                 /\ UNCHANGED pending
            ELSE /\ task' = [task EXCEPT ![t] = [r EXCEPT !.conn = k, !.si = r.si + 1]]
                 /\ pending' = [pending EXCEPT ![k] = Append(@, s)]
    /\ UNCHANGED <<db, whole, opsStarted, faults, accountKey>>

\* commit(): "await conn.commit()", the connection goes back to the pool and
\* the operation goes on.
ConnCommit(t) ==
    /\ task[t].pc = "commit"
    /\ task[t].conn # "none"
    /\ CommitPoint(task[t].si, Len(task[t].stmts))
    /\ task[t].si = Len(task[t].stmts) \/ pending[task[t].conn] # <<>>
    /\ LET r == task[t]
           k == r.conn
           after == ApplyAll(db, pending[k])
       IN /\ db' = after
          /\ pending' = [pending EXCEPT ![k] = <<>>]
          /\ IF r.si = Len(r.stmts)
             THEN /\ whole' = ApplyAll(whole, r.stmts)
                  /\ task' = [task EXCEPT ![t] =
                        AfterCommit([r EXCEPT !.conn = "none", !.si = 0,
                                              !.stmts = <<>>,
                                              !.wrote = @ \cup Changed(db, after)])]
             ELSE /\ whole' = whole
                  /\ task' = [task EXCEPT ![t] =
                        [r EXCEPT !.wrote = @ \cup Changed(db, after)]]
    /\ UNCHANGED <<opsStarted, faults, accountKey>>

\* commit(): cursor.execute of a statement after the first raises (a lost
\* connection, a lock timeout, a deadlock).  No rollback is issued: the
\* "async with" releases the connection, and the statements already executed
\* stay in its open transaction unless the pool discards them on release.  An
\* OperationalError makes the wrapper call commit() again; any other error is
\* raised to the operation.
StmtFails(t, kind, keep) ==
    /\ task[t].pc = "commit"
    /\ task[t].conn # "none"
    /\ task[t].si >= 1 /\ task[t].si < Len(task[t].stmts)
    /\ faults < MaxFaults
    /\ faults' = faults + 1
    /\ pending' = [pending EXCEPT ![task[t].conn] = IF keep THEN @ ELSE <<>>]
    /\ task' = [task EXCEPT ![t] =
          IF kind = "op" THEN [@ EXCEPT !.conn = "none", !.si = 0]
          ELSE Raise(@, Internal("Error"))]
    /\ UNCHANGED <<db, whole, opsStarted, accountKey>>

RegStep(A) == PoolReady /\ A /\ UNCHANGED <<mgrVars, callerVars, permVars>>

RegNext ==
    \/ BuildPoolOk
    \/ \E t \in Tasks : RegStep(StartAny(t))
    \/ \E t \in Tasks : RegStep(GpFetch(t))
    \/ \E t \in Tasks : RegStep(AddFetch(t))
    \/ \E t \in Tasks : RegStep(AddRefetch(t))
    \/ \E t \in Tasks : RegStep(MergeFetch(t))
    \/ \E t \in Tasks : RegStep(SwFetch(t))
    \/ \E t \in Tasks : RegStep(ExecStmt(t))
    \/ \E t \in Tasks : RegStep(ConnCommit(t))

(***************************************************************************)
(* Calls one after the other: one task, the next call starts when the       *)
(* previous one ended.                                                      *)
(***************************************************************************)

\* The names a member gives to switch to, and the names given to rename.
SwitchNames == {"a", "A", "character"}
RenameInputs == {NoName, "a", "long", "o'c"}
LevelInputs == {NoInt, max_level, max_level + 1}
CharacterIds == 1..MaxCharRows

\* The pool of account a in tables d, or the pool its first lookup gives it.
PoolOf(d, a) == IF d.accounts[a] = <<>> THEN a ELSE d.accounts[a][1]

\* What the registry says of the call that starts, given the call before it.
SeqExpectation(prev, op, a, b, name, kw) ==
    CASE op = "get_pool_by_account" ->
           IF db.accounts[a] = <<>> THEN "first"
           ELSE IF prev.op = op /\ prev.a = a /\ prev.expect = "first" /\ prev.res = Ok
                THEN "second" ELSE "none"
      [] op = "switch_active_character" ->
           IF prev.op = op /\ prev.a = a /\ prev.name = Lower(name) /\ prev.res = Ok
           THEN "repeat" ELSE "none"
      [] op = "separate_pools" ->
           IF a # b /\ Len(db.accounts[a]) = 1 /\ db.accounts[a] = db.accounts[b]
           THEN IF db.accounts[a] = <<a>> THEN "own" ELSE "other"
           ELSE "none"
      [] op = "get_active_character" ->
           LET chars == {c \in db.characters : c.pool_id = PoolOf(db, a)}
               act == {c \in chars : c.active_on_account = a}
           IN IF chars = {} THEN "empty"
              ELSE IF Cardinality(act) > 1 THEN "several"
              ELSE IF act = {} THEN "inactive" ELSE "one"
      [] op = "set_properties_of_character" ->
           IF \/ kw.character_name # NoName /\ (NameLen(kw.character_name) > 32
                                                  \/ HasQuote(kw.character_name))
              \/ kw.level # NoInt /\ (kw.level < min_level \/ kw.level > max_level)
           THEN "invalid" ELSE "none"
      [] OTHER -> "none"

\* The call starts in task t1.
SeqStart(op, a, b, name, id, kw) ==
    /\ ~Running("t1")
    /\ opsStarted < MaxSeqOps
    /\ opsStarted' = opsStarted + 1
    /\ op = "add_character_to_db" => db.next_id <= MaxCharRows
    /\ (op = "get_active_character" /\ db.next_id > MaxCharRows)
           => \E c \in db.characters : c.pool_id = PoolOf(db, a)
    /\ task' = [task EXCEPT !["t1"] =
          [Idle EXCEPT !.op = op, !.a = a, !.b = b, !.name = name, !.id = id, !.kw = kw,
                       !.expect = SeqExpectation(task["t1"], op, a, b, name, kw),
                       !.gpAcc = a,
                       !.pc = CASE op = "merge_pools" -> "merge_fetch"
                                [] op = "set_properties_of_character" -> "sp"
                                [] op = "delete" -> "commit"
                                [] OTHER -> "gp",
                       !.stmts = IF op = "delete" THEN <<CharDelete(id)>> ELSE <<>>,
                       !.after = IF op = "delete" THEN "done" ELSE "",
                       !.ret = CASE op = "add_character_to_db" -> "add_fetch"
                                 [] op = "switch_active_character" -> "sw_fetch"
                                 [] op = "separate_pools" -> "sep_a"
                                 [] op = "get_pool_by_account" -> "gp_done"
                                 [] op = "move" -> "mv"
                                 [] op = "get_active_character" -> "ga_fetch"
                                 [] op = "get_character" -> "gc_fetch"
                                 [] OTHER -> ""]]
    /\ UNCHANGED <<db, whole, pending, faults, accountKey>>

SeqStartAny ==
    \/ \E a \in Accounts, n \in InputNames :
           SeqStart("add_character_to_db", a, 0, n, 0, NoKwargs)
    \/ \E a \in PoolIds, b \in PoolIds : SeqStart("merge_pools", a, b, "", 0, NoKwargs)
    \/ \E a \in Accounts, n \in SwitchNames :
           SeqStart("switch_active_character", a, 0, n, 0, NoKwargs)
    \/ \E a \in Accounts, b \in Accounts :
           SeqStart("separate_pools", a, b, "", 0, NoKwargs)
    \/ \E a \in Accounts : SeqStart("get_pool_by_account", a, 0, "", 0, NoKwargs)
    \/ \E id \in CharacterIds, n \in RenameInputs, l \in LevelInputs :
           SeqStart("set_properties_of_character", 0, 0, "", id,
                    [NoKwargs EXCEPT !.character_name = n, !.level = l])
    \/ \E id \in CharacterIds : SeqStart("delete", 0, 0, "", id, NoKwargs)
    \/ \E id \in CharacterIds, dest \in Accounts :
           SeqStart("move", dest, 0, "", id, NoKwargs)
    \/ \E a \in Accounts : SeqStart("get_active_character", a, 0, "", 0, NoKwargs)
    \/ \E a \in Accounts, n \in SwitchNames :
           SeqStart("get_character", a, 0, n, 0, NoKwargs)

SeqNext ==
    \/ BuildPoolOk
    \/ RegStep(SeqStartAny)
    \/ RegStep(GpFetch("t1"))
    \/ RegStep(AddFetch("t1"))
    \/ RegStep(AddRefetch("t1"))
    \/ RegStep(MergeFetch("t1"))
    \/ RegStep(SwFetch("t1"))
    \/ RegStep(GaFetch("t1"))
    \/ RegStep(GcFetch("t1"))
    \/ RegStep(SetProperties("t1"))
    \/ RegStep(ExecStmt("t1"))
    \/ RegStep(ConnCommit("t1"))

(***************************************************************************)
(* The commands that ask for a confirmation, one after the other.           *)
(***************************************************************************)

\* How many commands are run in all.
MaxCmdOps == 3

\* What the member does with the prompt of ask_confirmation.
Answers == {"yes", "no", "timeout"}

\* ask_confirmation: True for y / yes, False for another message, None after
\* the timeout.
AskConfirmation(answer) == answer = "yes"

\* delete, move, merge, separate at "if await self.ask_confirmation(...)": the
\* message of the prompt reads character.name, then the answer decides.
Confirm(t, answer) ==
    /\ task[t].pc = "confirm"
    /\ LET r == task[t]
           asked == [r EXCEPT !.expect = IF AskConfirmation(answer) THEN "confirmed"
                                         ELSE "declined"]
       IN task' = [task EXCEPT ![t] =
             IF r.op \in {"cmd_delete", "cmd_move"} /\ r.id = 0
             THEN Raise(r, Internal("AttributeError"))
             ELSE IF ~AskConfirmation(answer) THEN Return(asked)
             ELSE CASE r.op = "cmd_delete" ->
                         StartCommit(asked, <<CharDelete(r.id)>>, "done")
                    [] r.op = "cmd_move" ->
                         [asked EXCEPT !.pc = "sp",
                                       !.kw = [NoKwargs EXCEPT !.owner_id = r.b,
                                                               !.pool_id = r.pool2,
                                                               !.active_on_account = 0]]
                    [] r.op = "cmd_merge" ->
                         [asked EXCEPT !.pc = "merge_fetch", !.a = r.pool, !.b = r.pool2]
                    [] OTHER ->
                         [asked EXCEPT !.pc = "gp", !.gpAcc = r.a, !.ret = "sep_a"]]
    /\ UNCHANGED <<db, whole, pending, opsStarted, faults, accountKey>>

\* A command starts in task t1.  name "" is a command given no character name:
\* it takes the member's active character.
CmdStart(op, a, b, name) ==
    /\ ~Running("t1")
    /\ opsStarted < MaxCmdOps
    /\ opsStarted' = opsStarted + 1
    /\ op = "add_character_to_db" => db.next_id <= MaxCharRows
    /\ (op \in {"cmd_delete", "cmd_move"} /\ name = "" /\ db.next_id > MaxCharRows)
           => \E c \in db.characters : c.pool_id = PoolOf(db, a)
    /\ task' = [task EXCEPT !["t1"] =
          [Idle EXCEPT !.op = op, !.a = a, !.b = b, !.name = name, !.gpAcc = a,
                       !.pc = IF op = "cmd_separate" THEN "confirm" ELSE "gp",
                       !.ret = CASE op = "add_character_to_db" -> "add_fetch"
                                 [] op = "cmd_merge" -> "cm_a"
                                 [] op \in {"cmd_delete", "cmd_move"} ->
                                      IF name = "" THEN "ga_fetch" ELSE "gc_fetch"
                                 [] OTHER -> ""]]
    /\ UNCHANGED <<db, whole, pending, faults, accountKey>>

CmdStartAny ==
    \/ \E a \in Accounts, n \in InputNames : CmdStart("add_character_to_db", a, 0, n)
    \/ \E a \in Accounts, n \in {"", "a"} : CmdStart("cmd_delete", a, 0, n)
    \/ \E a \in Accounts, b \in Accounts, n \in {"", "a"} : CmdStart("cmd_move", a, b, n)
    \/ \E a \in Accounts, b \in Accounts : CmdStart("cmd_merge", a, b, "")
    \/ \E a \in Accounts, b \in Accounts : CmdStart("cmd_separate", a, b, "")

CmdNext ==
    \/ BuildPoolOk
    \/ RegStep(CmdStartAny)
    \/ RegStep(GpFetch("t1"))
    \/ RegStep(AddFetch("t1"))
    \/ RegStep(AddRefetch("t1"))
    \/ RegStep(GaFetch("t1"))
    \/ RegStep(GcFetch("t1"))
    \/ \E answer \in Answers : RegStep(Confirm("t1", answer))
    \/ RegStep(MergeFetch("t1"))
    \/ RegStep(SetProperties("t1"))
    \/ RegStep(ExecStmt("t1"))
    \/ RegStep(ConnCommit("t1"))

(***************************************************************************)
(* Xp accruals: messages and the add command, running concurrently.         *)
(***************************************************************************)

\* How many accruals are started in all.
MaxXpOps == 3

\* The members whose characters gain xp: the accruals of one member all go to
\* the characters of one pool.
XpMembers == {1}

\* A message of a member arrives in a roleplay channel (n words), or the add
\* command is given an amount n for a member's active character.
XpStart(t, op, a, n) ==
    /\ ~Running(t)
    /\ t = "t2" => Running("t1")
    /\ opsStarted < MaxXpOps
    /\ opsStarted' = opsStarted + 1
    /\ task' = [task EXCEPT ![t] =
          [Idle EXCEPT !.op = op, !.a = a, !.b = n, !.pc = "gp", !.gpAcc = a,
                       !.ret = "ga_fetch"]]
    /\ UNCHANGED <<db, whole, pending, faults, accountKey>>

XpStartAny(t) ==
    \/ \E a \in XpMembers, n \in Words : XpStart(t, "on_message", a, n)
    \/ \E a \in XpMembers, n \in Amounts : XpStart(t, "cmd_xp_add", a, n)

XpNext ==
    \/ BuildPoolOk
    \/ \E t \in Tasks : RegStep(XpStartAny(t))
    \/ \E t \in Tasks : RegStep(GpFetch(t))
    \/ \E t \in Tasks : RegStep(GaFetch(t))
    \/ \E t \in Tasks : RegStep(AddFetch(t))
    \/ \E t \in Tasks : RegStep(AddRefetch(t))
    \/ \E t \in Tasks : RegStep(SetProperties(t))
    \/ \E t \in Tasks : RegStep(ExecStmt(t))
    \/ \E t \in Tasks : RegStep(ConnCommit(t))

(***************************************************************************)
(* The level_up command among xp accruals, one call after the other.       *)
(***************************************************************************)

\* How many commands and messages are handled in all.
MaxLevelOps == 4

\* A member gives the level_up command.
LevelStart(a) ==
    /\ ~Running("t1")
    /\ opsStarted < MaxLevelOps
    /\ opsStarted' = opsStarted + 1
    /\ task' = [task EXCEPT !["t1"] =
          [Idle EXCEPT !.op = "cmd_level_up", !.a = a, !.pc = "gp", !.gpAcc = a,
                       !.ret = "ga_fetch"]]
    /\ UNCHANGED <<db, whole, pending, faults, accountKey>>

\* A message or the add command, under the bound of this section.
LevelXpStart(op, a, n) ==
    /\ opsStarted < MaxLevelOps
    /\ XpStart("t1", op, a, n)

LevelStartAny ==
    \/ \E a \in XpMembers : LevelStart(a)
    \/ \E a \in XpMembers, n \in Words : LevelXpStart("on_message", a, n)
    \/ \E a \in XpMembers, n \in Amounts : LevelXpStart("cmd_xp_add", a, n)

LevelNext ==
    \/ BuildPoolOk
    \/ RegStep(LevelStartAny)
    \/ RegStep(GpFetch("t1"))
    \/ RegStep(GaFetch("t1"))
    \/ RegStep(AddFetch("t1"))
    \/ RegStep(AddRefetch("t1"))
    \/ RegStep(SetProperties("t1"))
    \/ RegStep(ExecStmt("t1"))
    \/ RegStep(ConnCommit("t1"))

FaultNext ==
    \E t \in Tasks, kind \in {"op", "other"}, keep \in BOOLEAN :
        RegStep(StmtFails(t, kind, keep))

(***************************************************************************)
(* Claims about commit and the registry.                                    *)
(***************************************************************************)

C7_GroupsTakeEffectAsOneStep ==
    /\ db = whole
    /\ \A k \in FreeConns : pending[k] = <<>>

C7_Witness ==
    \E t \in Tasks, u \in Tasks :
        /\ t # u
        /\ task[t].pc = "commit" /\ task[t].conn # "none"
        /\ task[t].si >= 1 /\ task[t].si < Len(task[t].stmts)
        /\ ApplyAll(db, pending[task[t].conn]) # db
        /\ task[u].pc \in {"gp", "add_fetch", "add_refetch", "merge_fetch", "sw_fetch"}

\* The tables e are the tables d with pool a merged into pool b.
MergePost(d, e, a, b) ==
    /\ \A acc \in Accounts :
          e.accounts[acc] = SetPool(d.accounts[acc], {a, b}, b)
    /\ e.characters = {IF c.pool_id \in {a, b} THEN [c EXCEPT !.pool_id = b] ELSE c :
                          c \in d.characters}
    /\ \A acc \in Accounts : \A i \in 1..Len(e.accounts[acc]) : e.accounts[acc][i] # a
    /\ \A c \in e.characters : c.pool_id # a

\* C8: a merge of two distinct pools whose characters together are at most
\* max_characters_per_pool and have different names is not rejected, and its
\* commit moves every account and character of pool a or b to pool b, leaves
\* no row in pool a and changes no other row.
C8_MergeMovesEverythingToB ==
    /\ [](\A t \in Tasks :
             (task[t].op = "merge_pools" /\ task[t].expect = "accept")
                 => task[t].res.kind \in {"none", "ok"})
    /\ [][\A t \in Tasks :
             (task[t].op = "merge_pools" /\ task[t].pc = "commit" /\ task'[t].pc = "done")
                 => MergePost(db, db', task[t].a, task[t].b)]_vars

C8_Witness ==
    \E t \in Tasks :
        /\ task[t].op = "merge_pools" /\ task[t].pc = "done" /\ task[t].res = Ok
        /\ task[t].expect = "accept" /\ "char" \in task[t].wrote
        /\ db.accounts[task[t].a] = <<task[t].b>>
        /\ \E c \in db.characters : c.owner_id = task[t].a /\ c.pool_id = task[t].b
        /\ \E c \in db.characters : c.owner_id = task[t].b /\ c.pool_id = task[t].b

\* C9: a merge of a pool with itself, of pools with more than
\* max_characters_per_pool characters together, or of pools that both hold a
\* character of one name, ends with a user-facing error; and a merge that ends
\* with a user-facing error changed no row.
C9_RejectedMergeChangesNothing ==
    \A t \in Tasks :
        task[t].op = "merge_pools" =>
            /\ task[t].expect = "reject" =>
                  (task[t].pc = "done" /\ task[t].res.kind = "notify")
            /\ task[t].res.kind = "notify" => task[t].wrote = {}

C9_Witness ==
    \E t \in Tasks :
        /\ task[t].op = "merge_pools" /\ task[t].pc = "done"
        /\ task[t].res = Notify("There are multiple characters with the same name in the pools you want to merge")
        /\ \E x \in db.characters, y \in db.characters :
              /\ x.pool_id = task[t].a /\ y.pool_id = task[t].b /\ x.name = y.name

\* C10: add_character_to_db for an account whose pool holds
\* max_characters_per_pool characters ends with the capacity error and changed
\* no character row.
C10_FullPoolRejectsAdd ==
    \A t \in Tasks :
        (task[t].op = "add_character_to_db" /\ task[t].expect = "capacity") =>
            /\ task[t].pc = "done"
            /\ task[t].res = Notify("Reached character limit")
            /\ "char" \notin task[t].wrote

C10_Witness ==
    \E t \in Tasks :
        /\ task[t].op = "add_character_to_db" /\ task[t].expect = "capacity"
        /\ task[t].pc = "done"
        /\ \E c \in db.characters : c.active_on_account = task[t].a

(***************************************************************************)
(* Claims about calls made one after the other.                             *)
(***************************************************************************)

\* C11: get_pool_by_account(X) for an account X without a row, and the same
\* call made again right after it, both return X and leave exactly the row
\* (X, X); the first call writes the row, the second writes nothing.
C11_LookupCreatesRowOnce ==
    \A t \in Tasks :
        (/\ task[t].op = "get_pool_by_account" /\ task[t].pc = "done"
         /\ task[t].expect \in {"first", "second"}) =>
            /\ task[t].res = Ok
            /\ task[t].out = task[t].a
            /\ db.accounts[task[t].a] = <<task[t].a>>
            /\ task[t].wrote = IF task[t].expect = "first" THEN {"acc"} ELSE {}

C11_Witness ==
    \E t \in Tasks :
        /\ task[t].op = "get_pool_by_account" /\ task[t].pc = "done"
        /\ task[t].expect = "second" /\ task[t].out = task[t].a

\* The characters active on account a.
ActiveOn(d, a) == {c \in d.characters : c.active_on_account = a}

\* C12: after switch_active_character(account, name) succeeded, exactly one
\* character is active on the account, it is in the account's pool and it is
\* called name; the same call made again right after it writes nothing.
C12_SwitchLeavesOneActive ==
    \A t \in Tasks :
        (/\ task[t].op = "switch_active_character" /\ task[t].pc = "done"
         /\ task[t].res = Ok) =>
            /\ Cardinality(ActiveOn(db, task[t].a)) = 1
            /\ \A c \in ActiveOn(db, task[t].a) :
                  /\ db.accounts[task[t].a] = <<c.pool_id>>
                  /\ c.name = task[t].name
            /\ task[t].expect = "repeat" => task[t].wrote = {}

\* C13: set_properties_of_character given at least one invalid field, before
\* or after valid ones, never reaches its commit: it ends with a user-facing
\* error and has written nothing.
C13_InvalidFieldWritesNothing ==
    \A t \in Tasks :
        (task[t].op = "set_properties_of_character" /\ task[t].expect = "invalid") =>
            \/ task[t].pc = "sp"
            \/ task[t].pc = "done" /\ task[t].res.kind = "notify" /\ task[t].wrote = {}

C13_Witness ==
    \E t \in Tasks :
        /\ task[t].op = "set_properties_of_character" /\ task[t].pc = "done"
        /\ task[t].expect = "invalid" /\ task[t].res.kind = "notify"
        /\ task[t].kw.character_name = "a" /\ task[t].kw.level = max_level + 1
        /\ \E c \in db.characters : c.id = task[t].id /\ c.name # "a"

\* The row of d.characters with c's id, as it is in e.
SameRow(e, c) == {x \in e.characters : x.id = c.id}

\* The tables e are the tables d with a separated from b, when both were in
\* the pool whose id is a.
SepOwnPost(d, e, a, b) ==
    /\ a # b
    /\ e.accounts[a] = <<a>>
    /\ \A c \in e.characters : c.owner_id = a => c.pool_id = a
    /\ \A acc \in Accounts \ {a} : d.accounts[acc] = <<a>> => e.accounts[acc] = <<b>>
    /\ \A c \in d.characters :
          (c.pool_id = a /\ c.owner_id # a) => SameRow(e, c) = {[c EXCEPT !.pool_id = b]}

\* C14: separate_pools(a, b) for two accounts in the pool whose id is a is not
\* rejected, and its commit leaves a and the characters a owns in pool a and
\* moves b, every other account of the pool and every other character of the
\* pool to pool b.
C14_SeparateFromOwnPool ==
    /\ [](\A t \in Tasks :
             (task[t].op = "separate_pools" /\ task[t].expect = "own")
                 => task[t].res.kind \in {"none", "ok"})
    /\ [][\A t \in Tasks :
             (/\ task[t].op = "separate_pools" /\ task[t].expect = "own"
              /\ task[t].pc = "commit" /\ task'[t].pc = "done")
                 => SepOwnPost(db, db', task[t].a, task[t].b)]_vars

C14_Witness ==
    \E t \in Tasks :
        /\ task[t].op = "separate_pools" /\ task[t].expect = "own"
        /\ task[t].pc = "done" /\ task[t].res = Ok /\ task[t].wrote = {"acc", "char"}
        /\ \E c \in db.characters : c.owner_id = task[t].a /\ c.pool_id = task[t].a
        /\ \E c \in db.characters : c.owner_id = task[t].b /\ c.pool_id = task[t].b

\* The tables e are the tables d with a taken out of a pool whose id is not a.
SepOtherPost(d, e, a, b) ==
    /\ \A acc \in Accounts :
          e.accounts[acc] = IF acc = a THEN <<a>> ELSE d.accounts[acc]
    /\ \A acc \in Accounts \ {a} :
          \A i \in 1..Len(e.accounts[acc]) : e.accounts[acc][i] # a
    /\ \A c \in e.characters : c.pool_id = a <=> c.owner_id = a
    /\ e.characters =
          {IF c.owner_id = a THEN [c EXCEPT !.pool_id = a] ELSE c : c \in d.characters}

\* C15: separate_pools(a, b) for two accounts in a pool whose id is not a is
\* not rejected, and its commit makes a the only account of pool a and the
\* characters a owns the only characters of pool a, and changes no other
\* account and no other character.
C15_SeparateFromOtherPool ==
    /\ [](\A t \in Tasks :
             (task[t].op = "separate_pools" /\ task[t].expect = "other")
                 => task[t].res.kind \in {"none", "ok"})
    /\ [][\A t \in Tasks :
             (/\ task[t].op = "separate_pools" /\ task[t].expect = "other"
              /\ task[t].pc = "commit" /\ task'[t].pc = "done")
                 => SepOtherPost(db, db', task[t].a, task[t].b)]_vars

C15_Witness ==
    \E t \in Tasks :
        /\ task[t].op = "separate_pools" /\ task[t].expect = "other"
        /\ task[t].pc = "done" /\ task[t].res = Ok /\ task[t].wrote = {"acc", "char"}
        /\ db.accounts[task[t].a] = <<task[t].a>>
        /\ db.accounts[task[t].b] = <<task[t].b>>
        /\ \E c \in db.characters : c.owner_id = task[t].a /\ c.pool_id = task[t].a
        /\ \E c \in db.characters : c.owner_id = task[t].b /\ c.pool_id = task[t].b

\* C16: an operation that ended with a user-facing error has written nothing
\* to the accounts table or to the characters table.
C16_ValidationErrorWritesNothing ==
    \A t \in Tasks : task[t].res.kind = "notify" => task[t].wrote = {}

\* C17: no two characters of one pool have the same stored name.
C17_NamesUniqueInPool ==
    \A x \in db.characters, y \in db.characters :
        (x.pool_id = y.pool_id /\ Lower(x.name) = Lower(y.name)) => x = y

\* C18: at most one character is active on an account.
C18_OneActivePerAccount ==
    \A a \in Accounts : Cardinality(ActiveOn(db, a)) <= 1

\* C19: no pool holds more than max_characters_per_pool characters.
C19_PoolWithinCapacity ==
    \A p \in PoolIds :
        Cardinality({c \in db.characters : c.pool_id = p}) <= max_characters_per_pool

\* C20: no account has more than one row in the accounts table.
C20_OneRowPerAccount ==
    \A a \in Accounts : Len(db.accounts[a]) <= 1

(***************************************************************************)
(* Claims about looking a character up.                                     *)
(***************************************************************************)

\* C21: get_active_character for an account with more than one active
\* character in its pool ends with an internal error, not with a user-facing
\* one, and changes no character.
C21_SeveralActiveIsInternalError ==
    \A t \in Tasks :
        (/\ task[t].op = "get_active_character" /\ task[t].pc = "done"
         /\ task[t].expect = "several") =>
            /\ task[t].res.kind = "internal"
            /\ "char" \notin task[t].wrote

\* C22: get_active_character for an account whose pool is empty makes a
\* character called "character", owned by and active on the account, and
\* returns it; with exactly one active character it returns that one and writes
\* nothing; with characters and none active it ends with the user-facing error
\* and makes no character.
C22_ActiveCharacterCases ==
    \A t \in Tasks :
        (task[t].op = "get_active_character" /\ task[t].pc = "done") =>
            /\ task[t].expect = "empty" =>
                  /\ task[t].res = Ok /\ "char" \in task[t].wrote
                  /\ \E c \in db.characters :
                        /\ c.id = task[t].out /\ c.name = "character"
                        /\ c.owner_id = task[t].a /\ c.active_on_account = task[t].a
                        /\ db.accounts[task[t].a] = <<c.pool_id>>
                  /\ Cardinality({c \in db.characters :
                                     c.pool_id = PoolOf(db, task[t].a)}) = 1
            /\ task[t].expect = "one" =>
                  /\ task[t].res = Ok /\ task[t].wrote = {}
                  /\ \E c \in db.characters :
                        /\ c.id = task[t].out /\ c.active_on_account = task[t].a
                        /\ db.accounts[task[t].a] = <<c.pool_id>>
            /\ task[t].expect = "inactive" =>
                  /\ task[t].res = Notify("The account doesn't have any active characters")
                  /\ "char" \notin task[t].wrote

C22_Witness ==
    \E t \in Tasks :
        /\ task[t].op = "get_active_character" /\ task[t].pc = "done"
        /\ task[t].expect = "empty" /\ task[t].res = Ok
        /\ \E c \in db.characters : c.id = task[t].out /\ c.name = "character"
        /\ \E c \in db.characters : c.pool_id # PoolOf(db, task[t].a)

\* C23: get_character(account, name) either returns a character of the
\* account's pool whose stored name is name, letter case ignored, or ends with
\* the user-facing error that the account has no access to that character.
C23_CharacterOrNoAccess ==
    \A t \in Tasks :
        (task[t].op = "get_character" /\ task[t].pc = "done") =>
            \/ task[t].res = Notify("The account doesn't have access to that character")
            \/ /\ task[t].res = Ok
               /\ \E c \in db.characters :
                     /\ c.id = task[t].out /\ Lower(c.name) = task[t].name
                     /\ db.accounts[task[t].a] = <<c.pool_id>>

\* C30: every character is in the pool of the account that owns it.
C30_CharacterInOwnersPool ==
    \A c \in db.characters : db.accounts[c.owner_id] = <<c.pool_id>>

C30_Witness ==
    \E t \in Tasks :
        /\ task[t].op = "get_active_character" /\ task[t].pc = "done"
        /\ task[t].expect = "empty" /\ task[t].res = Ok
        /\ \E c \in db.characters :
              c.id = task[t].out /\ c.owner_id = task[t].a /\ c.pool_id # task[t].a

(***************************************************************************)
(* Part 3.  The permissions of xp_system: the resolver in __init__ and the  *)
(* gate cog_check.                                                          *)
(***************************************************************************)

\* configuration["permissions"]["basic_permissions"]: the permissions the
\* commands ask for.
BasePerms == {"manage_characters_self", "manage_characters_others",
              "manage_pools_self", "manage_pools_others"}

\* The keys of configuration["permissions"]["nested_permissions"].
CompositePerms == {"player", "staff"}

\* The permission names a configuration gives to a role or to a composite
\* permission.
ConfigPerms == CompositePerms \cup {"manage_characters_self", "manage_characters_others"}

\* The role ids of configuration["permissions"]["roles"], in the file's order.
Roles == {"r1", "r2"}
RoleOrder == <<"r1", "r2">>

\* A configuration that gives no role and no default permission.
NoPermissions == [default |-> {}, roles |-> [r \in Roles |-> {}],
                  nested |-> [c \in CompositePerms |-> {}]]

NoRoles == [r \in {} |-> {}]

\* The required_permissions the decorators declare.
Commands == {"add", "delete", "move", "merge", "separate", "stats"}
Declared(cmd) ==
    CASE cmd \in {"add", "delete"} -> {"manage_characters_self"}
      [] cmd = "move" -> {"manage_characters_self", "manage_characters_others"}
      [] cmd \in {"merge", "separate"} -> {"manage_pools_self"}
      [] OTHER -> {}

\* The permission a command appends when it targets another member.
OthersPerm(cmd) ==
    IF cmd = "separate" THEN "manage_pools_others" ELSE "manage_characters_others"

ResolverIdle == [pc |-> "done", roles |-> <<>>, role |-> "", perms |-> {},
                 unresolved |-> {}, rest |-> {}]
NoInvocation == [n |-> 0, roles |-> {}, cmd |-> "", other |-> FALSE, allowed |-> FALSE]

\* xp_system was constructed from a configuration without permissions.
PermIdle ==
    /\ config = NoPermissions
    /\ role_permissions = [r \in Roles |-> {}]
    /\ default_perms = {}
    /\ extras = [cmd \in Commands |-> Declared(cmd)]
    /\ resolver = ResolverIdle
    /\ gate = NoInvocation

\* xp_system.__init__ before its loop over the roles, for any configuration.
ResolverInit ==
    /\ config \in [default : {{}}, roles : [Roles -> SUBSET ConfigPerms],
                   nested : [CompositePerms -> SUBSET ConfigPerms]]
    /\ role_permissions = NoRoles
    /\ default_perms = config.default
    /\ extras = [cmd \in Commands |-> Declared(cmd)]
    /\ resolver = [ResolverIdle EXCEPT !.pc = "roles", !.roles = RoleOrder]
    /\ gate = NoInvocation

\* An expansion that forgets what the composite permission stands for (mutant
\* of Expand).
ExpandDropsNested(perms, c, nested) == perms \ {c}

\* "perms.remove(c); perms = perms.union(set(nested_permissions[c]))"
Expand(perms, c, nested) == (perms \ {c}) \cup nested[c]

\* "for role, perms in roles.items()": the next role, or the end of the loop.
ResolveRole ==
    /\ resolver.pc = "roles"
    /\ IF resolver.roles = <<>>
       THEN resolver' = ResolverIdle
       ELSE LET role == Head(resolver.roles)
                perms == config.roles[role]
            IN resolver' = [resolver EXCEPT !.pc = "while", !.role = role,
                                            !.perms = perms,
                                            !.unresolved = perms \ BasePerms]
    /\ UNCHANGED <<config, role_permissions, default_perms, extras, gate>>

\* "while unresolved_perms:", and the assignment after the loop.
ResolveWhile ==
    /\ resolver.pc = "while"
    /\ IF resolver.unresolved # {}
       THEN /\ resolver' = [resolver EXCEPT !.pc = "for", !.rest = resolver.unresolved]
            /\ UNCHANGED role_permissions
       ELSE /\ role_permissions' =
                  [r \in DOMAIN role_permissions \cup {resolver.role} |->
                      IF r = resolver.role THEN resolver.perms ELSE role_permissions[r]]
            /\ resolver' = [resolver EXCEPT !.pc = "roles", !.roles = Tail(@),
                                            !.perms = {}]
    /\ UNCHANGED <<config, default_perms, extras, gate>>

\* "for c in unresolved_perms:", in the order the set gives its elements, and
\* "unresolved_perms = perms.difference(base_perms)" after it.
ResolveFor ==
    /\ resolver.pc = "for"
    /\ IF resolver.rest # {}
       THEN \E c \in resolver.rest :
               resolver' = [resolver EXCEPT
                               !.perms = Expand(resolver.perms, c, config.nested),
                               !.rest = @ \ {c}]
       ELSE resolver' = [resolver EXCEPT !.pc = "while",
                                         !.unresolved = resolver.perms \ BasePerms]
    /\ UNCHANGED <<config, role_permissions, default_perms, extras, gate>>

PermStep(A) == A /\ UNCHANGED <<mgrVars, callerVars, regVars>>

ResolverNext ==
    \/ PermStep(ResolveRole)
    \/ PermStep(ResolveWhile)
    \/ PermStep(ResolveFor)

(***************************************************************************)
(* Claims about the permissions.                                            *)
(***************************************************************************)

\* The permissions reachable from the set perms in at most n expansions.
RECURSIVE Reachable(_, _, _)
Reachable(perms, nested, n) ==
    IF n = 0 THEN perms
    ELSE Reachable(perms \cup UNION {nested[c] : c \in perms \cap CompositePerms},
                   nested, n - 1)

ReachableBase(perms, nested) ==
    Reachable(perms, nested, Cardinality(CompositePerms) + 1) \cap BasePerms

\* C24: the permissions stored for a role are base permissions only, and they
\* are exactly the base permissions reachable from the role's configured
\* permissions through nested_permissions.
C24_ResolvedIsReachableBase ==
    \A r \in DOMAIN role_permissions :
        /\ role_permissions[r] \subseteq BasePerms
        /\ role_permissions[r] = ReachableBase(config.roles[r], config.nested)

C24_Witness ==
    /\ resolver.pc = "done" /\ DOMAIN role_permissions = Roles
    /\ config.roles["r1"] = {"staff"}
    /\ config.nested["staff"] = {"player", "manage_characters_others"}
    /\ config.nested["player"] = {"manage_characters_self"}
    /\ role_permissions["r1"] = {"manage_characters_self", "manage_characters_others"}

\* C25: the resolver comes to an end for every configuration.
C25_ResolverTerminates == <>(resolver.pc = "done")

\* How many commands are invoked in all.
MaxInvocations == 2

\* The default permissions a configuration of the model gives.
DefaultInputs == {{}, {"manage_characters_self"}}

\* xp_system after its construction from a configuration that gives base
\* permissions to the roles: the resolver stores them as they are.
GateInit ==
    /\ config \in [default : DefaultInputs, roles : [Roles -> SUBSET BasePerms],
                   nested : {NoPermissions.nested}]
    /\ role_permissions = config.roles
    /\ default_perms = config.default
    /\ extras = [cmd \in Commands |-> Declared(cmd)]
    /\ resolver = ResolverIdle
    /\ gate = NoInvocation

\* cog_check for a command whose extras hold the permissions required:
\* "permissions = self.default_perms" names the list itself, so
\* "permissions.extend(...)" adds the roles' permissions to self.default_perms.
CogCheck(required, roles, dperms, rperms) ==
    IF required = {} THEN [ok |-> TRUE, default_perms |-> dperms]
    ELSE LET permissions ==
                 dperms \cup UNION {rperms[r] : r \in roles \cap DOMAIN rperms}
         IN [ok |-> required \subseteq permissions, default_perms |-> permissions]

\* The commands that ask for one more permission when they target another
\* member: "ctx.command.extras['required_permissions'].append(...)" and a
\* second cog_check.
ChecksTarget(cmd) == cmd \in {"add", "delete", "separate"}

\* A member with the given roles invokes a command: the check the framework
\* runs before the command, then the command's own check.  reached: did the
\* command get as far as its own check (delete looks the character up first).
Invoke(roles, cmd, other, reached) ==
    /\ resolver.pc = "done"
    /\ gate.n < MaxInvocations
    /\ LET first == CogCheck(extras[cmd], roles, default_perms, role_permissions)
           again == ChecksTarget(cmd) /\ other /\ reached /\ first.ok
           required == extras[cmd] \cup {OthersPerm(cmd)}
           second == CogCheck(required, roles, first.default_perms, role_permissions)
       IN /\ extras' = IF again THEN [extras EXCEPT ![cmd] = required] ELSE extras
          /\ default_perms' = IF again THEN second.default_perms
                              ELSE first.default_perms
          /\ gate' = [n |-> gate.n + 1, roles |-> roles, cmd |-> cmd,
                      other |-> again,
                      allowed |-> IF again THEN second.ok ELSE first.ok]
    /\ UNCHANGED <<config, role_permissions, resolver>>

InvokeAny ==
    \E roles \in SUBSET Roles, cmd \in Commands, other \in BOOLEAN, reached \in BOOLEAN :
        /\ other => ChecksTarget(cmd)
        /\ ~reached => (cmd = "delete" /\ other)
        /\ Invoke(roles, cmd, other, reached)

GateNext == PermStep(InvokeAny)

\* The permissions an invocation needs: the ones its command declares, and
\* the one for acting on another member when it does.
Needed(cmd, other) == Declared(cmd) \cup (IF other THEN {OthersPerm(cmd)} ELSE {})

\* C29: an invocation is allowed exactly when the permissions it needs are
\* among the configured default permissions and the resolved permissions of
\* the invoking member's own roles, whatever was invoked before it.
C29_DecisionDependsOnOwnRolesOnly ==
    gate.n > 0 =>
        (gate.allowed <=>
            Needed(gate.cmd, gate.other) \subseteq
                config.default \cup UNION {role_permissions[r] : r \in gate.roles})

\* C27: a command whose confirmation prompt was not answered with y or yes
\* ends without an error and has changed neither the accounts table nor the
\* characters table.
C27_DeclinedCommandChangesNothing ==
    \A t \in Tasks :
        task[t].expect = "declined" =>
            (task[t].pc = "done" /\ task[t].res = Ok /\ task[t].wrote = {})

\* C26: an accrual writes the total (and a message the cached words) it
\* computed from the character as it read it, whatever the row holds by then;
\* so of two accruals that read the same total, the one that commits last
\* leaves a total with its own gain only (C26_Witness).
C26_AccrualWritesFromItsSnapshot ==
    [][\A t \in Tasks :
          (/\ task[t].op \in XpOps /\ task[t].kw.total_xp # NoInt
           /\ task[t].pc = "commit" /\ task'[t].pc # "commit")
              => \A c \in db'.characters :
                    c.id = task[t].id =>
                       /\ c.total_xp = IF task[t].snap.total + task[t].gain > 0
                                       THEN task[t].snap.total + task[t].gain ELSE 0
                       /\ task[t].op = "on_message" =>
                             c.words_cached =
                                (task[t].b + task[t].snap.cached) % xp_rate]_vars

C26_Witness ==
    \E t \in Tasks, u \in Tasks :
        /\ t # u
        /\ task[t].op \in XpOps /\ task[t].pc = "done" /\ task[t].res = Ok
        /\ task[u].op \in XpOps /\ task[u].pc = "done" /\ task[u].res = Ok
        /\ task[t].out # 0 /\ task[t].out = task[u].out
        /\ task[t].gain > 0 /\ task[u].gain > 0
        /\ task[t].snap.total = task[u].snap.total
        /\ \E c \in db.characters :
              c.id = task[t].out /\ c.total_xp = task[t].snap.total + task[t].gain

\* Was the character the level_up command read below max_level with at least
\* the xp the next level asks for.
CanLevelUp(sn) == sn.level < max_level /\ sn.total >= level_req(sn.level + 1)

\* C31: the level_up command raises the active character's level by exactly
\* one and sets level_notification to 1 when the character is below max_level
\* and its total_xp is at or above the threshold of the next level, a total
\* that equals the threshold included; otherwise the level stays as it was,
\* and no level exceeds max_level.
C31_LevelUpAtOrAboveThreshold ==
    /\ \A c \in db.characters : c.level <= max_level
    /\ (task["t1"].op = "cmd_level_up" /\ task["t1"].pc = "done"
            /\ task["t1"].res = Ok)
           => \E c \in db.characters :
                 /\ c.id = task["t1"].out
                 /\ IF CanLevelUp(task["t1"].snap)
                    THEN c.level = task["t1"].snap.level + 1 /\ c.level_notification = 1
                    ELSE c.level = task["t1"].snap.level

Init == MgrInit /\ RegInit /\ PermIdle

\* The bot before the constructor of xp_system resolves the permissions.
InitResolver == MgrInit /\ RegInit /\ ResolverInit

\* The bot with its permissions resolved.
InitGate == MgrInit /\ RegInit /\ GateInit

Next == MgrNext

\* The bot: the pool manager and its callers.
Spec == Init /\ [][Next]_vars

\* The same, with _rebuild_pool also called on its own.
SpecRebuild == Init /\ [][Next \/ DirectRebuild]_vars

\* The registry on a ready pool and a database that executes every statement.
SpecReg == Init /\ [][RegNext]_vars

\* The registry on a database where a statement may fail.
SpecF == Init /\ [][RegNext \/ FaultNext]_vars

\* The registry called by one caller, one call after the other.
SpecSeq == Init /\ [][SeqNext]_vars

\* The commands delete, move, merge and separate, one after the other.
SpecCmd == Init /\ [][CmdNext]_vars

\* Messages and add commands that run concurrently.
SpecXp == Init /\ [][XpNext]_vars
SpecLevel == Init /\ [][LevelNext]_vars

\* The construction of xp_system from any configuration of the permissions.
SpecResolver == InitResolver /\ [][ResolverNext]_vars

\* The commands members invoke, as far as the permission gate goes.
SpecGate == InitGate /\ [][GateNext]_vars

\* The same; the constructor goes on as long as it has a step to take.
SpecResolverFair == SpecResolver /\ WF_vars(ResolverNext)

=============================================================================
